---------------------------- MODULE Spec2Model ----------------------------
(***************************************************************************)
(* Model of temporal-mcp (src/main.go): an MCP server with two tools,      *)
(* list_workflows and describe_workflow, over a Temporal backend.          *)
(*                                                                         *)
(* Go strings are TLA+ strings; Len, SubSeq and \o act on them character   *)
(* by character.  A Go value of type interface{} (a tool argument) is a    *)
(* record [kind, val].  A protobuf pointer field is a record with a nil    *)
(* flag.  The handlers share no mutable state (the client handle c and     *)
(* temporalNamespace are only read), so one invocation in flight at a time *)
(* shows every behaviour of a handler.                                     *)
(***************************************************************************)
EXTENDS Integers, Sequences, FiniteSets, TLC

(***************************************************************************)
(* Bounds of the model.                                                    *)
(***************************************************************************)
\* Longest execution list a backend reply carries in the model.
MaxExec == 2

(***************************************************************************)
(* strings: the Go standard library functions the handlers use.            *)
(***************************************************************************)
UpperLetters == "ABCDEFGHIJKLMNOPQRSTUVWXYZ"

LowerLetters == "abcdefghijklmnopqrstuvwxyz"

\* The i-th character of s, as a string of length 1.
CharAt(s, i) == SubSeq(s, i, i)

\* Position of the one-character string c in s, 0 when absent.
IndexByte(s, c) ==
    LET hits == {i \in 1..Len(s) : CharAt(s, i) = c}
    IN  IF hits = {} THEN 0 ELSE CHOOSE i \in hits : \A j \in hits : i <= j

\* strings.ToLower on one ASCII character: 'A'..'Z' move to 'a'..'z'.
ToLowerByte(c) ==
    LET i == IndexByte(UpperLetters, c)
    IN  IF i = 0 THEN c ELSE CharAt(LowerLetters, i)

RECURSIVE ToLowerFrom(_, _)
ToLowerFrom(s, i) ==
    IF i > Len(s) THEN "" ELSE ToLowerByte(CharAt(s, i)) \o ToLowerFrom(s, i + 1)

\* A plausible slip: the raw value is used where the lowered one is meant.
ToLower_Raw(s) == s

\* strings.ToLower(s), for ASCII s.
ToLower(s) == ToLowerFrom(s, 1)

\* strings.HasPrefix
HasPrefix(s, p) == Len(s) >= Len(p) /\ SubSeq(s, 1, Len(p)) = p

\* strings.Contains
Contains(s, sub) ==
    \E i \in 1..(Len(s) - Len(sub) + 1) : SubSeq(s, i, i + Len(sub) - 1) = sub

\* The lines of a text: strings.Split(text, "\n") without the empty piece
\* that follows a final newline.  LineEnds are the positions just after each
\* line: those of the newlines and, for an unterminated last line, Len + 1.
LineEnds(text) ==
    {i \in 1..Len(text) : CharAt(text, i) = "\n"}
    \cup (IF Len(text) > 0 /\ CharAt(text, Len(text)) # "\n" THEN {Len(text) + 1} ELSE {})

Lines(text) ==
    LET ends   == LineEnds(text)
        nth(k) == IF k = 0 THEN 0
                  ELSE CHOOSE e \in ends : Cardinality({x \in ends : x <= e}) = k
    IN  [k \in 1..Cardinality(ends) |-> SubSeq(text, nth(k - 1) + 1, nth(k) - 1)]

(***************************************************************************)
(* strconv / fmt: decimal rendering of a non-negative int (%d).            *)
(***************************************************************************)
Digit(d) == CharAt("0123456789", d + 1)

RECURSIVE Itoa(_)
Itoa(n) == IF n < 10 THEN Digit(n) ELSE Itoa(n \div 10) \o Digit(n % 10)

\* %02d and %04d of the time layout.
Pad2(n) == IF n < 10 THEN "0" \o Itoa(n) ELSE Itoa(n)

Pad4(n) ==
    IF n < 10 THEN "000" \o Itoa(n)
    ELSE IF n < 100 THEN "00" \o Itoa(n)
    ELSE IF n < 1000 THEN "0" \o Itoa(n)
    ELSE Itoa(n)

(***************************************************************************)
(* time: t.AsTime().UTC().Format(time.RFC3339) of a protobuf timestamp     *)
(* holding `seconds` since the Unix epoch.  RFC3339 has no fraction, so    *)
(* the nanos of the timestamp never show.  The date is the proleptic       *)
(* Gregorian civil date of the day number.                                 *)
(***************************************************************************)
FormatRFC3339(seconds) ==
    LET days == seconds \div 86400
        rem  == seconds % 86400
        z    == days + 719468
        era  == z \div 146097
        doe  == z - era * 146097
        yoe  == (doe - doe \div 1460 + doe \div 36524 - doe \div 146096) \div 365
        doy  == doe - (365 * yoe + yoe \div 4 - yoe \div 100)
        mp   == (5 * doy + 2) \div 153
        d    == doy - (153 * mp + 2) \div 5 + 1
        m    == IF mp < 10 THEN mp + 3 ELSE mp - 9
        y    == yoe + era * 400 + (IF m <= 2 THEN 1 ELSE 0)
    IN  Pad4(y) \o "-" \o Pad2(m) \o "-" \o Pad2(d) \o "T"
        \o Pad2(rem \div 3600) \o ":" \o Pad2((rem % 3600) \div 60) \o ":"
        \o Pad2(rem % 60) \o "Z"

(***************************************************************************)
(* Protobuf values of the backend API (go.temporal.io/api).  A pointer     *)
(* field that is nil is [nil |-> TRUE]; the generated getters are nil-safe *)
(* and return the zero value through a nil pointer.                        *)
(***************************************************************************)
NilPtr == [nil |-> TRUE]

Timestamp(s) == [nil |-> FALSE, seconds |-> s]

WorkflowExecution(w, r) == [nil |-> FALSE, workflowId |-> w, runId |-> r]

WorkflowType(n) == [nil |-> FALSE, name |-> n]

WorkflowExecutionInfo(e, t, st, start, close) ==
    [nil |-> FALSE, execution |-> e, type |-> t, status |-> st,
     startTime |-> start, closeTime |-> close]

\* info.GetExecution().GetWorkflowId()
GetWorkflowId(info) ==
    IF info.nil \/ info.execution.nil THEN "" ELSE info.execution.workflowId

\* info.GetExecution().GetRunId()
GetRunId(info) ==
    IF info.nil \/ info.execution.nil THEN "" ELSE info.execution.runId

\* info.GetType().GetName()
GetTypeName(info) == IF info.nil \/ info.type.nil THEN "" ELSE info.type.name

\* info.GetStatus(): the enum's zero value through a nil pointer.
GetStatus(info) == IF info.nil THEN "UNSPECIFIED" ELSE info.status

\* info.GetStartTime(), info.GetCloseTime()
GetStartTime(info) == IF info.nil THEN NilPtr ELSE info.startTime

GetCloseTime(info) == IF info.nil THEN NilPtr ELSE info.closeTime

\* ts.AsTime().UTC().Format(time.RFC3339): AsTime reads the seconds through
\* the nil-safe getter, so a nil timestamp formats as the Unix epoch.
FormatTime(ts) == FormatRFC3339(IF ts.nil THEN 0 ELSE ts.seconds)

\* enumspb.WorkflowExecutionStatus values that mark a closed execution.
ClosedStatuses ==
    {"COMPLETED", "FAILED", "CANCELED", "TERMINATED", "CONTINUED_AS_NEW", "TIMED_OUT"}

(***************************************************************************)
(* The executions the backend may hold.  The backend is an external        *)
(* service: every well-typed record is possible, among them a closed       *)
(* record with unset fields and a record whose status is Running although  *)
(* a close time is set.                                                    *)
(***************************************************************************)
BackendExecutions ==
    { WorkflowExecutionInfo(WorkflowExecution("wf-a", "run-2"), WorkflowType("OrderWorkflow"),
          "RUNNING", Timestamp(1700000000), NilPtr),
      WorkflowExecutionInfo(WorkflowExecution("wf-b", "run-1"), WorkflowType("BillingWorkflow"),
          "RUNNING", Timestamp(1700000100), Timestamp(1700000200)),
      WorkflowExecutionInfo(WorkflowExecution("wf-a", "run-1"), WorkflowType("OrderWorkflow"),
          "COMPLETED", Timestamp(1699990000), Timestamp(1699993600)),
      WorkflowExecutionInfo(WorkflowExecution("wf-c", "run-1"), WorkflowType("BillingWorkflow"),
          "FAILED", Timestamp(951782400), Timestamp(951782459)),
      WorkflowExecutionInfo(WorkflowExecution("wf-d", "run-1"), WorkflowType("OrderWorkflow"),
          "CANCELED", Timestamp(0), Timestamp(86399)),
      WorkflowExecutionInfo(WorkflowExecution("wf-e", "run-1"), WorkflowType("OrderWorkflow"),
          "TERMINATED", Timestamp(1700000000), Timestamp(1700000001)),
      WorkflowExecutionInfo(WorkflowExecution("wf-f", "run-1"), WorkflowType("OrderWorkflow"),
          "TIMED_OUT", Timestamp(1700000000), Timestamp(1700003600)),
      WorkflowExecutionInfo(WorkflowExecution("wf-g", "run-1"), WorkflowType("OrderWorkflow"),
          "CONTINUED_AS_NEW", Timestamp(1700000000), Timestamp(1700000002)),
      WorkflowExecutionInfo(NilPtr, NilPtr, "COMPLETED", NilPtr, NilPtr),
      WorkflowExecutionInfo(WorkflowExecution("wf-h", "run-1"), NilPtr,
          "UNSPECIFIED", NilPtr, NilPtr) }

\* A Go error value: nil, or an error with its message.
NilErr == [nil |-> TRUE]

Error(msg) == [nil |-> FALSE, msg |-> msg]

\* What a backend call can fail with: the caller's context canceled, the
\* transport down, the execution unknown.
BackendErrors ==
    {Error("context canceled"), Error("connection refused"),
     Error("workflow execution not found")}

\* Sequences of distinct elements of S, of length at most n.
SeqsUpTo(S, n) ==
    UNION { { q \in [1..k -> S] : \A i, j \in 1..k : i # j => q[i] # q[j] } : k \in 0..n }

(***************************************************************************)
(* mcp: tool arguments and tool results.                                   *)
(***************************************************************************)
\* An argument of req.Params.Arguments: a value of type interface{}.
AbsentArg == [kind |-> "absent", val |-> ""]

NumberArg == [kind |-> "number", val |-> ""]

StringArg(s) == [kind |-> "string", val |-> s]

\* v.(string): the value and ok, with the zero value "" when not a string.
TypeAssertString(v) ==
    [ok |-> v.kind = "string", val |-> IF v.kind = "string" THEN v.val ELSE ""]

\* mcp.NewToolResultError(msg), returned with a nil error.
NewToolResultError(msg) == [kind |-> "error", text |-> msg, err |-> NilErr]

\* mcp.NewToolResultText(text), returned with a nil error.
NewToolResultText(text) == [kind |-> "text", text |-> text, err |-> NilErr]

NoResult == [kind |-> "none", text |-> "", err |-> NilErr]

(***************************************************************************)
(* workflowStatusToString                                                  *)
(***************************************************************************)
workflowStatusToString(status) ==
    CASE status = "RUNNING" -> "Running"
      [] status = "COMPLETED" -> "Completed"
      [] status = "FAILED" -> "Failed"
      [] status = "CANCELED" -> "Canceled"
      [] status = "TERMINATED" -> "Terminated"
      [] status = "CONTINUED_AS_NEW" -> "ContinuedAsNew"
      [] status = "TIMED_OUT" -> "TimedOut"
      [] OTHER -> "Unknown"

(***************************************************************************)
(* list_workflows handler: the pure parts.                                 *)
(***************************************************************************)
\* MaximumPageSize of both list requests.
MaximumPageSize == 100

\* A plausible slip: only the type assertion is checked, not emptiness.
MissingOrInvalid_NoEmptyCheck(a) == ~a.ok

\* `!ok || v == ""` after the type assertion of a required argument.
MissingOrInvalid(a) == ~a.ok \/ a.val = ""

\* A plausible slip: a plain else takes every other keyword as a closed query.
StatusQuery_ElseClosed(statusFilter) ==
    IF statusFilter = "running" THEN "open" ELSE "closed"

\* The if / else if / else over statusFilter: which backend query is made.
StatusQuery(statusFilter) ==
    IF statusFilter = "running" THEN "open"
    ELSE IF statusFilter = "completed" \/ statusFilter = "failed" THEN "closed"
    ELSE "unsupported"

NoRequest == [kind |-> "none"]

\* c.ListOpenWorkflow(ctx, &ListOpenWorkflowExecutionsRequest{...})
ListOpenRequest(namespace) ==
    [kind |-> "ListOpenWorkflow", namespace |-> namespace,
     maximumPageSize |-> MaximumPageSize]

\* c.ListClosedWorkflow(ctx, &ListClosedWorkflowExecutionsRequest{...}): the
\* Filters wrapper is set and the StatusFilter inside it is left nil (the
\* assignment is commented out), so the request's GetStatusFilter() is nil.
ListClosedRequest(namespace, statusFilter) ==
    [kind |-> "ListClosedWorkflow", namespace |-> namespace,
     maximumPageSize |-> MaximumPageSize, statusFilter |-> NilPtr]

\* A plausible slip: the handler hands the backend's error back as its own.
ListFailedResult_ReturnsErr(statusFilter, err) ==
    [kind |-> "none", text |-> "", err |-> err]

\* The result when the list query fails (both branches; the open branch
\* spells the keyword it has just compared statusFilter with).
ListFailedResult(statusFilter, err) ==
    NewToolResultError("Failed to list " \o statusFilter \o " workflows: " \o err.msg)

\* The result for a keyword that is none of the three.
UnsupportedResult(statusVal) ==
    NewToolResultError("Unsupported status '" \o statusVal
                       \o "' (use running, completed, or failed)")

\* A plausible slip: the End field is written whether or not a close time is set.
RenderLine_AlwaysEnd(info) ==
    "- ID: " \o GetWorkflowId(info) \o " | Run: " \o GetRunId(info)
    \o " | Type: " \o GetTypeName(info)
    \o " | Status: " \o workflowStatusToString(GetStatus(info))
    \o " | Start: " \o FormatTime(GetStartTime(info))
    \o " | End: " \o FormatTime(GetCloseTime(info)) \o "\n"

\* One line of the list, for one execution.
RenderLine(info) ==
    "- ID: " \o GetWorkflowId(info) \o " | Run: " \o GetRunId(info)
    \o " | Type: " \o GetTypeName(info)
    \o " | Status: " \o workflowStatusToString(GetStatus(info))
    \o " | Start: " \o FormatTime(GetStartTime(info))
    \o (IF ~GetCloseTime(info).nil
        THEN " | End: " \o FormatTime(GetCloseTime(info)) ELSE "")
    \o "\n"

\* A plausible slip: each line is put in front of the text built so far.
RECURSIVE RenderLines_Prepend(_)
RenderLines_Prepend(executions) ==
    IF executions = <<>> THEN ""
    ELSE RenderLines_Prepend(Tail(executions)) \o RenderLine(Head(executions))

\* The range loop over executions, appending to outputBuilder.
RECURSIVE RenderLines(_)
RenderLines(executions) ==
    IF executions = <<>> THEN ""
    ELSE RenderLine(Head(executions)) \o RenderLines(Tail(executions))

\* A plausible slip: no special case for an empty list.
RenderList_NoEmptyCase(statusFilter, executions) ==
    NewToolResultText("Found " \o Itoa(Len(executions)) \o " " \o statusFilter
                      \o " workflow(s):\n" \o RenderLines(executions))

\* The output built from the executions retrieved.
RenderList(statusFilter, executions) ==
    IF Len(executions) = 0
    THEN NewToolResultText("No " \o statusFilter \o " workflows found.")
    ELSE NewToolResultText("Found " \o Itoa(Len(executions)) \o " " \o statusFilter
                           \o " workflow(s):\n" \o RenderLines(executions))

\* What the handler returns once the backend has answered.
ListResult(statusFilter, rep) ==
    IF ~rep.err.nil THEN ListFailedResult(statusFilter, rep.err)
    ELSE RenderList(statusFilter, rep.executions)

(***************************************************************************)
(* describe_workflow handler: the pure parts.                              *)
(***************************************************************************)
\* c.DescribeWorkflowExecution(ctx, wfID, runID)
DescribeRequest(wfID, runID) ==
    [kind |-> "DescribeWorkflowExecution", workflowId |-> wfID, runId |-> runID]

\* A plausible slip: the End Time line is written without testing endTime.
RenderDetail_AlwaysEnd(info) ==
    LET startTime == IF ~GetStartTime(info).nil THEN FormatTime(GetStartTime(info)) ELSE ""
        endTime   == IF ~GetCloseTime(info).nil THEN FormatTime(GetCloseTime(info)) ELSE ""
    IN  "Workflow Execution Details:\n"
        \o "Workflow ID: " \o GetWorkflowId(info) \o "\n"
        \o "Run ID: " \o GetRunId(info) \o "\n"
        \o "Type: " \o GetTypeName(info) \o "\n"
        \o "Status: " \o workflowStatusToString(GetStatus(info)) \o "\n"
        \o "Start Time: " \o startTime \o "\n"
        \o "End Time: " \o endTime \o "\n"

\* The multi-line block for one execution.
RenderDetail(info) ==
    LET startTime == IF ~GetStartTime(info).nil THEN FormatTime(GetStartTime(info)) ELSE ""
        endTime   == IF ~GetCloseTime(info).nil THEN FormatTime(GetCloseTime(info)) ELSE ""
    IN  "Workflow Execution Details:\n"
        \o "Workflow ID: " \o GetWorkflowId(info) \o "\n"
        \o "Run ID: " \o GetRunId(info) \o "\n"
        \o "Type: " \o GetTypeName(info) \o "\n"
        \o "Status: " \o workflowStatusToString(GetStatus(info)) \o "\n"
        \o "Start Time: " \o startTime \o "\n"
        \o (IF endTime # "" THEN "End Time: " \o endTime \o "\n" ELSE "")

\* A plausible slip: the nil check on the payload is left out.
DescribeResult_NoNilCheck(rep) ==
    IF ~rep.err.nil
    THEN NewToolResultError("Failed to describe workflow: " \o rep.err.msg)
    ELSE NewToolResultText(RenderDetail(rep.info))

\* What the handler returns once the backend has answered.
DescribeResult(rep) ==
    IF ~rep.err.nil
    THEN NewToolResultError("Failed to describe workflow: " \o rep.err.msg)
    ELSE IF rep.info.nil
    THEN NewToolResultError("No information available for the specified workflow")
    ELSE NewToolResultText(RenderDetail(rep.info))

(***************************************************************************)
(* The backend: what a call can return.  An open-executions query returns  *)
(* running executions, a closed-executions query returns closed ones, of   *)
(* the status of the request's status filter when it carries one; a        *)
(* describe returns the execution of the workflow id (and run id, when     *)
(* given), or a success response with no payload.  Every call can fail.    *)
(***************************************************************************)
Min(a, b) == IF a < b THEN a ELSE b

ListReply(err, executions) == [err |-> err, executions |-> executions]

DescribeReply(err, info) == [err |-> err, info |-> info]

NoReply == [kind |-> "none"]

Selected(req) ==
    IF req.kind = "ListOpenWorkflow"
    THEN {e \in BackendExecutions : e.status = "RUNNING"}
    ELSE {e \in BackendExecutions :
             /\ e.status \in ClosedStatuses
             /\ req.statusFilter.nil \/ e.status = req.statusFilter.status}

ListReplies(req) ==
    {ListReply(err, <<>>) : err \in BackendErrors}
    \cup {ListReply(NilErr, q) :
             q \in SeqsUpTo(Selected(req), Min(MaxExec, req.maximumPageSize))}

DescribeReplies(req) ==
    {DescribeReply(err, NilPtr) : err \in BackendErrors}
    \cup {DescribeReply(NilErr, NilPtr)}
    \cup {DescribeReply(NilErr, e) :
             e \in {i \in BackendExecutions :
                       /\ GetWorkflowId(i) = req.workflowId
                       /\ req.runId = "" \/ GetRunId(i) = req.runId}}

(***************************************************************************)
(* Inputs: environment and tool arguments.                                 *)
(***************************************************************************)
NamespaceEnv == {"", "prod"}

StatusStrings ==
    {"", "running", "RUNNING", "Running", "completed", "Completed", "failed",
     "FAILED", "fAiLeD", "canceled", "runnin", "running ", "all"}

StatusArgs == {AbsentArg, NumberArg} \cup {StringArg(s) : s \in StatusStrings}

WorkflowIdArgs ==
    {AbsentArg, NumberArg} \cup
    {StringArg(s) : s \in {"", "wf-a", "wf-b", "wf-h", "missing-id"}}

RunIdArgs == {AbsentArg, NumberArg, StringArg(""), StringArg("run-1")}

\* req.Params.Arguments: a missing key reads as a nil interface value.
Arguments(status, workflowId, runId) ==
    [status |-> status, workflow_id |-> workflowId, run_id |-> runId]

NoArguments == Arguments(AbsentArg, AbsentArg, AbsentArg)

NoLocals == [statusVal |-> "", statusFilter |-> "", wfID |-> "", runID |-> ""]

(***************************************************************************)
(* State.                                                                  *)
(***************************************************************************)
VARIABLES
    process,            \* "starting", "serving" or "exited" (log.Fatalf)
    temporalNamespace,  \* set once at startup
    pc,                 \* "idle", "calling" (blocked in the backend call), "responded"
    tool,               \* the tool invoked
    arguments,          \* req.Params.Arguments
    locals,             \* the handler's variables that live across the backend call
    request,            \* the backend request of this invocation
    calls,              \* backend calls this invocation has issued
    reply,              \* the backend's answer
    result              \* what the handler returned: (*CallToolResult, error)

vars == <<process, temporalNamespace, pc, tool, arguments, locals, request,
          calls, reply, result>>

Init ==
    /\ process = "starting"
    /\ temporalNamespace = ""
    /\ pc = "idle"
    /\ tool = "none"
    /\ arguments = NoArguments
    /\ locals = NoLocals
    /\ request = NoRequest
    /\ calls = 0
    /\ reply = NoReply
    /\ result = NoResult

\* main up to ServeStdio: read the environment and connect; a failed Dial is
\* fatal and no tool is ever registered.
Dial ==
    /\ process = "starting"
    /\ \E env \in NamespaceEnv, connected \in BOOLEAN :
          /\ temporalNamespace' = IF env = "" THEN "default" ELSE env
          /\ process' = IF connected THEN "serving" ELSE "exited"
    /\ UNCHANGED <<pc, tool, arguments, locals, request, calls, reply, result>>

\* The list_workflows handler from its entry to its first return or to the
\* backend call: the result returned (if any), the handler's variables, the
\* request issued (if any) and the number of backend calls made.
ListWorkflowsEntry(v, namespace) ==
    LET a            == TypeAssertString(v)
        statusVal    == a.val
        statusFilter == ToLower(statusVal)
        query        == StatusQuery(statusFilter)
        myLocals     == [NoLocals EXCEPT !.statusVal = statusVal,
                                         !.statusFilter = statusFilter]
    IN  IF MissingOrInvalid(a)
        THEN [pc |-> "responded", locals |-> NoLocals, request |-> NoRequest, issued |-> 0,
              result |-> NewToolResultError("Missing or invalid 'status' parameter")]
        ELSE IF query = "open"
        THEN [pc |-> "calling", locals |-> myLocals, issued |-> 1,
              request |-> ListOpenRequest(namespace), result |-> NoResult]
        ELSE IF query = "closed"
        THEN [pc |-> "calling", locals |-> myLocals, issued |-> 1,
              request |-> ListClosedRequest(namespace, statusFilter), result |-> NoResult]
        ELSE [pc |-> "responded", locals |-> myLocals, request |-> NoRequest, issued |-> 0,
              result |-> UnsupportedResult(statusVal)]

\* A caller invokes list_workflows; the handler runs to the backend call, or
\* to its return when it makes none.
CallListWorkflows ==
    /\ process = "serving"
    /\ pc = "idle"
    /\ \E v \in StatusArgs :
          LET out == ListWorkflowsEntry(v, temporalNamespace)
          IN  /\ tool' = "list_workflows"
              /\ arguments' = Arguments(v, AbsentArg, AbsentArg)
              /\ pc' = out.pc
              /\ locals' = out.locals
              /\ request' = out.request
              /\ calls' = calls + out.issued
              /\ result' = out.result
    /\ UNCHANGED <<process, temporalNamespace, reply>>

\* The backend answers the list query and the handler runs to its return.
ListWorkflowsReturn ==
    /\ pc = "calling"
    /\ tool = "list_workflows"
    /\ \E rep \in ListReplies(request) :
          /\ reply' = rep
          /\ result' = ListResult(locals.statusFilter, rep)
    /\ pc' = "responded"
    /\ UNCHANGED <<process, temporalNamespace, tool, arguments, locals, request, calls>>

\* The describe_workflow handler from its entry to its first return or to the
\* backend call.
DescribeWorkflowEntry(w, r) ==
    LET a     == TypeAssertString(w)
        wfID  == a.val
        runID == TypeAssertString(r).val
    IN  IF MissingOrInvalid(a)
        THEN [pc |-> "responded", locals |-> NoLocals, request |-> NoRequest, issued |-> 0,
              result |-> NewToolResultError("Missing or invalid 'workflow_id' parameter")]
        ELSE [pc |-> "calling", issued |-> 1,
              locals |-> [NoLocals EXCEPT !.wfID = wfID, !.runID = runID],
              request |-> DescribeRequest(wfID, runID), result |-> NoResult]

\* A caller invokes describe_workflow; the handler runs to the backend
\* call, or to its return when it makes none.
CallDescribeWorkflow ==
    /\ process = "serving"
    /\ pc = "idle"
    /\ \E w \in WorkflowIdArgs, r \in RunIdArgs :
          LET out == DescribeWorkflowEntry(w, r)
          IN  /\ tool' = "describe_workflow"
              /\ arguments' = Arguments(AbsentArg, w, r)
              /\ pc' = out.pc
              /\ locals' = out.locals
              /\ request' = out.request
              /\ calls' = calls + out.issued
              /\ result' = out.result
    /\ UNCHANGED <<process, temporalNamespace, reply>>

\* The backend answers the describe call and the handler runs to its return.
DescribeWorkflowReturn ==
    /\ pc = "calling"
    /\ tool = "describe_workflow"
    /\ \E rep \in DescribeReplies(request) :
          /\ reply' = rep
          /\ result' = DescribeResult(rep)
    /\ pc' = "responded"
    /\ UNCHANGED <<process, temporalNamespace, tool, arguments, locals, request, calls>>

\* The server writes the handler's result to the caller and is ready for the
\* next request; nothing of the invocation is kept.
Respond ==
    /\ pc = "responded"
    /\ pc' = "idle"
    /\ tool' = "none"
    /\ arguments' = NoArguments
    /\ locals' = NoLocals
    /\ request' = NoRequest
    /\ calls' = 0
    /\ reply' = NoReply
    /\ result' = NoResult
    /\ UNCHANGED <<process, temporalNamespace>>

Next ==
    \/ Dial
    \/ CallListWorkflows
    \/ ListWorkflowsReturn
    \/ CallDescribeWorkflow
    \/ DescribeWorkflowReturn
    \/ Respond

Spec == Init /\ [][Next]_vars

\* The backend call returns (with an answer, an error, or the cancellation
\* of the caller's context) and the server writes every result it is handed.
FairSpec ==
    /\ Spec
    /\ WF_vars(ListWorkflowsReturn)
    /\ WF_vars(DescribeWorkflowReturn)
    /\ WF_vars(Respond)

(***************************************************************************)
(* Vocabulary of the properties.  The text a caller sees is read back      *)
(* line by line; a keyword's letter-case variants are told by comparing    *)
(* letters, not through ToLower.                                           *)
(***************************************************************************)
Keywords == {"running", "completed", "failed"}

\* c is the letter k (lower case) or its capital.
SameLetter(c, k) ==
    \/ c = k
    \/ /\ IndexByte(LowerLetters, k) # 0
       /\ c = CharAt(UpperLetters, IndexByte(LowerLetters, k))

\* s is the keyword kw written in some letter case.
CaseVariantOf(s, kw) ==
    /\ Len(s) = Len(kw)
    /\ \A i \in 1..Len(kw) : SameLetter(CharAt(s, i), CharAt(kw, i))

\* The status argument is a string that matches kw case-insensitively.
StatusIs(kw) ==
    /\ arguments.status.kind = "string"
    /\ CaseVariantOf(arguments.status.val, kw)

Recognized == \E kw \in Keywords : StatusIs(kw)

ListResponded == pc = "responded" /\ tool = "list_workflows"

DescribeResponded == pc = "responded" /\ tool = "describe_workflow"

\* The handler returned a list (or a detail block) built from a backend answer.
ListSucceeded == ListResponded /\ result.kind = "text"

DescribeSucceeded == DescribeResponded /\ result.kind = "text"

\* The backend call of this invocation failed.
BackendFailed == pc = "responded" /\ reply # NoReply /\ ~reply.err.nil

\* The lines of the list below its header, one per execution.
ListBody == Tail(Lines(result.text))

LineShowsStatus(line, label) == Contains(line, " | Status: " \o label \o " | ")

LineHasEnd(line) == Contains(line, " | End: ")

DetailHasEndTime ==
    LET detail == Lines(result.text)
    IN  \E i \in 1..Len(detail) : HasPrefix(detail[i], "End Time: ")

DetailShowsStatus(label) ==
    LET detail == Lines(result.text)
    IN  \E i \in 1..Len(detail) : detail[i] = "Status: " \o label

(***************************************************************************)
(* C1.  A successful list_workflows for 'completed' shows only executions  *)
(* whose status is Completed, and for 'failed' only executions whose       *)
(* status is Failed, whatever the backend holds.                           *)
(***************************************************************************)
C1_OnlyRequestedCloseStatus ==
    ListSucceeded /\ reply.executions # <<>> =>
        /\ StatusIs("completed") =>
              \A i \in 1..Len(ListBody) : LineShowsStatus(ListBody[i], "Completed")
        /\ StatusIs("failed") =>
              \A i \in 1..Len(ListBody) : LineShowsStatus(ListBody[i], "Failed")

(***************************************************************************)
(* C2.  A status argument that is missing, not a string, empty, or no      *)
(* case-insensitive match of running / completed / failed never reaches    *)
(* the backend and is answered with an error result.                       *)
(***************************************************************************)
C2_UnrecognizedStatusIsError ==
    tool = "list_workflows" /\ ~Recognized =>
        /\ pc # "calling"
        /\ reply = NoReply
        /\ pc = "responded" => result.kind = "error"

C2_Witness ==
    /\ ListResponded
    /\ arguments.status = StringArg("canceled")
    /\ result.kind = "error"

(***************************************************************************)
(* C3.  Every invocation ends in a response that is a success text or an   *)
(* error result, returned with a nil Go error; the process keeps serving,  *)
(* a pending backend call is always answered and the server always gets    *)
(* back to accepting the next invocation.                                  *)
(***************************************************************************)
C3_EveryInvocationAnswered ==
    /\ [](pc = "responded" =>
            /\ result.kind \in {"text", "error"}
            /\ result.err.nil
            /\ process = "serving")
    /\ [][process = "serving" => process' = "serving"]_vars
    /\ (pc = "calling" ~> pc = "responded")
    /\ (pc = "responded" ~> pc = "idle")

C3_Witness == BackendFailed /\ result.kind = "error" /\ process = "serving"

(***************************************************************************)
(* C4.  With a recognized status and a backend answer holding no           *)
(* execution, the result is a success whose text is exactly                *)
(* "No <status in lower case> workflows found." with no newline after it.  *)
(***************************************************************************)
C4_EmptyListText ==
    \A kw \in Keywords :
        ListResponded /\ StatusIs(kw) /\ reply.err.nil /\ reply.executions = <<>> =>
            /\ result.kind = "text"
            /\ result.text = "No " \o kw \o " workflows found."

\* C4 as first stated: the text ends with one newline character.
C4_EmptyListTextWithNewline ==
    \A kw \in Keywords :
        ListResponded /\ StatusIs(kw) /\ reply.err.nil /\ reply.executions = <<>> =>
            /\ result.kind = "text"
            /\ result.text = "No " \o kw \o " workflows found.\n"

C4_Witness ==
    /\ ListResponded
    /\ StatusIs("running")
    /\ reply.err.nil
    /\ reply.executions = <<>>

(***************************************************************************)
(* C5.  A recognized keyword in any letter case makes the handler issue    *)
(* the request (query form and namespace) that the lower-case keyword      *)
(* makes it issue, and return, for the same backend answer, the result it  *)
(* returns for the lower-case keyword.                                     *)
(***************************************************************************)
C5_LetterCaseIrrelevant ==
    \A kw \in Keywords :
        tool = "list_workflows" /\ StatusIs(kw) =>
            LET lower == ListWorkflowsEntry(StringArg(kw), temporalNamespace)
            IN  /\ lower.pc = "calling"
                /\ request = lower.request
                /\ pc = "responded" =>
                      result = ListResult(lower.locals.statusFilter, reply)

C5_Witness ==
    /\ ListSucceeded
    /\ arguments.status = StringArg("fAiLeD")
    /\ reply.executions # <<>>

(***************************************************************************)
(* C6.  describe_workflow with a non-empty workflow id for which the       *)
(* backend returns an error, or a success response without payload,        *)
(* returns an error result; the process keeps serving.                     *)
(***************************************************************************)
C6_MissingExecutionIsError ==
    DescribeResponded /\ reply # NoReply /\ (~reply.err.nil \/ reply.info.nil) =>
        /\ result.kind = "error"
        /\ result.err.nil
        /\ process = "serving"

C6_Witness ==
    /\ DescribeResponded
    /\ arguments.workflow_id = StringArg("missing-id")
    /\ reply = DescribeReply(NilErr, NilPtr)

(***************************************************************************)
(* C7.  The rendered text has an end-time field exactly when the record    *)
(* has a close time: the detail block has an "End Time: " line, with a     *)
(* timestamp after the label, iff the close time is set; the i-th line of  *)
(* a list has an "End:" field iff the i-th execution's close time is set.  *)
(***************************************************************************)
C7_EndFieldIffCloseTime ==
    /\ DescribeSucceeded =>
          /\ DetailHasEndTime <=> ~reply.info.closeTime.nil
          /\ \A i \in 1..Len(Lines(result.text)) :
                Lines(result.text)[i] # "End Time: "
    /\ ListSucceeded /\ reply.executions # <<>> =>
          /\ Len(ListBody) = Len(reply.executions)
          /\ \A i \in 1..Len(reply.executions) :
                LineHasEnd(ListBody[i]) <=> ~reply.executions[i].closeTime.nil

C7_Witness ==
    /\ DescribeSucceeded
    /\ reply.info.closeTime.nil
    /\ ~DetailHasEndTime

(***************************************************************************)
(* C8.  For a non-empty backend answer the list is a header giving the     *)
(* number of executions, then one line per execution in the backend's      *)
(* order: the i-th line carries the i-th execution's workflow id, run id   *)
(* and type.                                                               *)
(***************************************************************************)
C8_ListInBackendOrder ==
    ListSucceeded /\ reply.executions # <<>> =>
        LET n == Len(reply.executions)
        IN  /\ Len(Lines(result.text)) = n + 1
            /\ HasPrefix(Head(Lines(result.text)), "Found " \o Itoa(n) \o " ")
            /\ \A i \in 1..n :
                  HasPrefix(ListBody[i],
                            "- ID: " \o GetWorkflowId(reply.executions[i])
                            \o " | Run: " \o GetRunId(reply.executions[i])
                            \o " | Type: " \o GetTypeName(reply.executions[i])
                            \o " | Status: ")

C8_Witness ==
    /\ ListSucceeded
    /\ Len(reply.executions) = MaxExec
    /\ GetWorkflowId(reply.executions[1]) # GetWorkflowId(reply.executions[MaxExec])

(***************************************************************************)
(* C9.  Status and close time are copied from the backend record as they   *)
(* are: a rendered record shows status Running together with an end time   *)
(* exactly when the backend record has status Running and a close time.    *)
(***************************************************************************)
C9_RunningWithEndOnlyFromBackend ==
    /\ DescribeSucceeded =>
          (DetailShowsStatus("Running") /\ DetailHasEndTime
             <=> reply.info.status = "RUNNING" /\ ~reply.info.closeTime.nil)
    /\ ListSucceeded /\ reply.executions # <<>> =>
          /\ Len(ListBody) = Len(reply.executions)
          /\ \A i \in 1..Len(reply.executions) :
                (LineShowsStatus(ListBody[i], "Running") /\ LineHasEnd(ListBody[i])
                   <=> /\ reply.executions[i].status = "RUNNING"
                       /\ ~reply.executions[i].closeTime.nil)

\* C9 as first stated: no rendered record shows Running with an end time.
C9_NeverRunningWithEnd ==
    /\ DescribeSucceeded => ~(DetailShowsStatus("Running") /\ DetailHasEndTime)
    /\ ListSucceeded /\ reply.executions # <<>> =>
          \A i \in 1..Len(ListBody) :
              ~(LineShowsStatus(ListBody[i], "Running") /\ LineHasEnd(ListBody[i]))

C9_Witness ==
    /\ ListSucceeded
    /\ \E i \in 1..Len(reply.executions) :
          /\ reply.executions[i].status = "RUNNING"
          /\ reply.executions[i].closeTime.nil
          /\ ~LineHasEnd(ListBody[i])

(***************************************************************************)
(* C10.  An invocation issues at most one backend call: one when the       *)
(* arguments are valid and the status is recognized, none otherwise; a     *)
(* failed call is reported as an error result with no second call.         *)
(***************************************************************************)
ValidInvocation ==
    \/ tool = "list_workflows" /\ Recognized
    \/ /\ tool = "describe_workflow"
       /\ arguments.workflow_id.kind = "string"
       /\ arguments.workflow_id.val # ""

C10_AtMostOneCallNoRetry ==
    /\ calls <= 1
    /\ pc \in {"calling", "responded"} => calls = (IF ValidInvocation THEN 1 ELSE 0)
    /\ pc = "calling" => ValidInvocation
    /\ BackendFailed => calls = 1 /\ result.kind = "error"

C10_Witness == BackendFailed /\ calls = 1 /\ reply.err = Error("connection refused")

=============================================================================
